---------------------------- MODULE Spec2Model ----------------------------
(***************************************************************************)
(* Model of the Figma -> PowerPoint conversion backend                     *)
(* (app.py, figma_processor.py, pptx_generator.py, utils/*.py).            *)
(*                                                                         *)
(* Numbers: every length, scale and coordinate is an exact rational        *)
(* [n |-> numerator, d |-> denominator > 0] in lowest terms; the Python    *)
(* floats of the source are modelled by the real numbers they approximate. *)
(* JSON objects (Python dicts) are records with a field `keys`, the set of *)
(* keys present, so that dict.get(k, default), d[k] (KeyError) and the     *)
(* truth value of a dict are modelled as the code computes them.           *)
(* Strings the code inspects are sequences of one-character strings.       *)
(***************************************************************************)
EXTENDS Integers, Sequences, FiniteSets, TLC

VARIABLES
    pc,             \* "request" | "process" | "slides" | "layers" | "done" ("idle": no request)
    figma_data,     \* the JSON body of the conversion request
    processed_data, \* process_figma_data's slides (layers filtered and sorted)
    slide_index,    \* number of slides of processed_data started
    slide_positioning, \* the current slide's calculate_positioning result
    sorted_layers,  \* the current slide's layers in processing order
    layer_index,    \* number of layers of sorted_layers processed
    prs,            \* the presentation being built: a sequence of output slides
    response,       \* the HTTP response: status (0: none yet) and the file sent
    log,            \* per layer processed: <<slide number, layer id, "done" | "error">>
    lp_stage,       \* layout probe: "idle" | "in" | "positioned" | "placed"
    lp_slide,       \* layout probe: slide_data given to calculate_positioning
    lp_config,      \* layout probe: config
    lp_layer,       \* layout probe: layer given to calculate_layer_position
    lp_positioning, \* layout probe: result of calculate_positioning
    lp_pos,         \* layout probe: result of calculate_layer_position
    u_stage,        \* utility probe: "idle" | "call" | "scaled" | "parsed" | "done"
    u_arg,          \* utility probe: the function applied and its arguments
    u_res           \* utility probe: the values returned

lp_vars == <<lp_stage, lp_slide, lp_config, lp_layer, lp_positioning, lp_pos>>

pipe_vars == <<pc, figma_data, processed_data, slide_index, slide_positioning, sorted_layers,
               layer_index, prs, response, log>>

util_vars == <<u_stage, u_arg, u_res>>

vars == <<pipe_vars, lp_vars, util_vars>>

---------------------------------------------------------------------------
(* Exact rational arithmetic (the model of Python float arithmetic).       *)

Abs(a) == IF a < 0 THEN -a ELSE a

RECURSIVE Gcd(_, _)
Gcd(a, b) == IF b = 0 THEN a ELSE Gcd(b, a % b)

\* n/d in lowest terms with a positive denominator (d # 0)
R(n, d) ==
    LET s == IF d < 0 THEN -1 ELSE 1
        g == Gcd(Abs(n), Abs(d))
    IN  [n |-> (s * n) \div g, d |-> (s * d) \div g]

RInt(i) == [n |-> i, d |-> 1]
RAdd(a, b) == R(a.n * b.d + b.n * a.d, a.d * b.d)
RSub(a, b) == R(a.n * b.d - b.n * a.d, a.d * b.d)
RMul(a, b) == R(a.n * b.n, a.d * b.d)
\* a / b for b # 0 (a zero divisor is a ZeroDivisionError, decided by the caller)
RDiv(a, b) == R(a.n * b.d, a.d * b.n)
RLt(a, b) == a.n * b.d < b.n * a.d
RLe(a, b) == a.n * b.d <= b.n * a.d
RGt(a, b) == RLt(b, a)
RGe(a, b) == RLe(b, a)
RIsZero(a) == a.n = 0
\* Python's max(a, b) and min(a, b)
RMax(a, b) == IF RGt(b, a) THEN b ELSE a
RMin(a, b) == IF RLt(b, a) THEN b ELSE a

---------------------------------------------------------------------------
(* dict.get(key, default) on a record that lists its present keys.          *)

Get(obj, key, default) == IF key \in obj.keys THEN obj[key] ELSE default

\* the truth value of a dict: non-empty
Truthy(obj) == obj.keys # {}

BoxKeys == {"x", "y", "width", "height"}

\* a position dict {x, y, width, height}
Box(x, y, w, h) == [keys |-> BoxKeys, x |-> x, y |-> y, width |-> w, height |-> h]

\* the empty dict {}
EmptyDict == [keys |-> {}, x |-> RInt(0), y |-> RInt(0), width |-> RInt(0), height |-> RInt(0)]

---------------------------------------------------------------------------
(* Strings (sequences of characters) and JSON values.                      *)

UpperChars == <<"A", "B", "C", "D", "E", "F", "G", "H", "I", "J", "K", "L", "M",
                "N", "O", "P", "Q", "R", "S", "T", "U", "V", "W", "X", "Y", "Z">>
LowerChars == <<"a", "b", "c", "d", "e", "f", "g", "h", "i", "j", "k", "l", "m",
                "n", "o", "p", "q", "r", "s", "t", "u", "v", "w", "x", "y", "z">>

\* str.lower()
LowerChar(c) ==
    IF \E i \in 1 .. Len(UpperChars) : UpperChars[i] = c
    THEN LowerChars[CHOOSE i \in 1 .. Len(UpperChars) : UpperChars[i] = c]
    ELSE c
Lower(s) == [i \in 1 .. Len(s) |-> LowerChar(s[i])]

\* str.upper()
UpperChar(c) ==
    IF \E i \in 1 .. Len(LowerChars) : LowerChars[i] = c
    THEN UpperChars[CHOOSE i \in 1 .. Len(LowerChars) : LowerChars[i] = c]
    ELSE c
Upper(s) == [i \in 1 .. Len(s) |-> UpperChar(s[i])]

\* `needle in s` for strings
Contains(s, needle) ==
    \E i \in 0 .. (Len(s) - Len(needle)) :
        \A j \in 1 .. Len(needle) : s[i + j] = needle[j]

Whitespace == {" ", "\t", "\n"}

\* str.strip(): leading and trailing whitespace removed
Strip(s) ==
    LET keep == {i \in 1 .. Len(s) : s[i] \notin Whitespace}
    IN  IF keep = {} THEN <<>>
        ELSE LET lo == CHOOSE i \in keep : \A j \in keep : i <= j
                 hi == CHOOSE i \in keep : \A j \in keep : j <= i
             IN  SubSeq(s, lo, hi)

\* str.lstrip('#'): every leading '#' removed
LStripHash(s) ==
    LET keep == {i \in 1 .. Len(s) : s[i] # "#"}
    IN  IF keep = {} THEN <<>>
        ELSE SubSeq(s, CHOOSE i \in keep : \A j \in keep : i <= j, Len(s))

\* JSON values as the code sees them: a string, a number, an object (dict)
\* or null; `s` is the string's characters, `v` the number
JStr(s) == [t |-> "str", s |-> s, v |-> RInt(0)]
JNum(r) == [t |-> "num", s |-> <<>>, v |-> r]
JObj == [t |-> "obj", s |-> <<>>, v |-> RInt(0)]
JNull == [t |-> "null", s |-> <<>>, v |-> RInt(0)]

\* Python truth value of a JSON value (the objects modelled are non-empty)
JTruthy(j) ==
    CASE j.t = "str" -> j.s # <<>>
      [] j.t = "num" -> ~RIsZero(j.v)
      [] j.t = "obj" -> TRUE
      [] OTHER -> FALSE

---------------------------------------------------------------------------
(* utils/colors.py                                                         *)

HexDigits == <<"0", "1", "2", "3", "4", "5", "6", "7", "8", "9",
               "a", "b", "c", "d", "e", "f">>

IsHexDigit(c) == \E i \in 1 .. Len(HexDigits) : HexDigits[i] = LowerChar(c)

\* int(c, 16) of one hexadecimal digit
HexVal(c) == (CHOOSE i \in 1 .. Len(HexDigits) : HexDigits[i] = LowerChar(c)) - 1

\* re.match(r'^[0-9A-Fa-f]{6}$', s): six hexadecimal digits, then the end of
\* the string or one final newline ('$' matches before a trailing newline)
MatchesHex6(s) ==
    /\ Len(s) = 6 \/ (Len(s) = 7 /\ s[7] = "\n")
    /\ \A i \in 1 .. 6 : IsHexDigit(s[i])

Black == <<0, 0, 0>>

\* hex_to_rgb(hex_color): [exc, rgb]; exc = "AttributeError" when the value is
\* truthy and not a string (it has no lstrip)
hex_to_rgb(hex_color) ==
    IF ~JTruthy(hex_color) THEN [exc |-> "", rgb |-> Black]
    ELSE IF hex_color.t # "str" THEN [exc |-> "AttributeError", rgb |-> Black]
    ELSE
    LET stripped == LStripHash(hex_color.s)
        hex == IF Len(stripped) = 3
               THEN <<stripped[1], stripped[1], stripped[2], stripped[2],
                      stripped[3], stripped[3]>>
               ELSE stripped
    IN  IF ~MatchesHex6(hex) THEN [exc |-> "", rgb |-> Black]
        ELSE [exc |-> "",
              rgb |-> <<16 * HexVal(hex[1]) + HexVal(hex[2]),
                        16 * HexVal(hex[3]) + HexVal(hex[4]),
                        16 * HexVal(hex[5]) + HexVal(hex[6])>>]

\* format(v, '02x') of a channel value 0..255
Hex02(v) == <<HexDigits[(v \div 16) + 1], HexDigits[(v % 16) + 1]>>

\* faulty variant: .upper() left out
rgb_to_hex_lower(r, g, b) == <<"#">> \o Hex02(r) \o Hex02(g) \o Hex02(b)

\* rgb_to_hex(r, g, b)
rgb_to_hex(r, g, b) == Upper(<<"#">> \o Hex02(r) \o Hex02(g) \o Hex02(b))

\* is_transparent_color(color_value)
is_transparent_color(color_value) ==
    IF ~JTruthy(color_value) THEN TRUE
    ELSE IF color_value.t = "str"
         THEN Lower(color_value.s) \in {<<"t", "r", "a", "n", "s", "p", "a", "r", "e", "n", "t">>,
                                        <<"n", "o", "n", "e">>, <<>>}
         ELSE FALSE

---------------------------------------------------------------------------
(* figma_processor.process_figma_data: the fixed conversion config.        *)

DefaultConfig ==
    [slideWidth |-> RInt(10), slideHeight |-> R(45, 8), safeMargin |-> R(3, 10)]

---------------------------------------------------------------------------
(* utils/layouts.py                                                        *)

NoPositioning ==
    [exc |-> "", scale |-> RInt(0), offset_x |-> RInt(0), offset_y |-> RInt(0),
     figma_width |-> RInt(0), figma_height |-> RInt(0),
     ppt_width |-> RInt(0), ppt_height |-> RInt(0),
     available_width |-> RInt(0), available_height |-> RInt(0)]

\* faulty variant: the aspect-ratio comparison inverted (fits the wrong axis)
fits_width_inverted(figma_aspect, ppt_aspect) == RLt(figma_aspect, ppt_aspect)

\* line 34: the frame is relatively wider than the available area
fits_width(figma_aspect, ppt_aspect) == RGt(figma_aspect, ppt_aspect)

\* calculate_positioning(slide_data, config); exc = "ZeroDivisionError" when a
\* division of lines 30-42 has a zero divisor
calculate_positioning(slide_data, config) ==
    LET figma_width == Get(slide_data, "width", RInt(1920))
        figma_height == Get(slide_data, "height", RInt(1080))
        ppt_width == config.slideWidth
        ppt_height == config.slideHeight
        safe_margin == config.safeMargin
        available_width == RSub(ppt_width, RMul(RInt(2), safe_margin))
        available_height == RSub(ppt_height, RMul(RInt(2), safe_margin))
    IN  IF RIsZero(figma_height) \/ RIsZero(available_height)
        THEN [NoPositioning EXCEPT !.exc = "ZeroDivisionError"]
        ELSE
        LET figma_aspect == RDiv(figma_width, figma_height)
            ppt_aspect == RDiv(available_width, available_height)
            wider == fits_width(figma_aspect, ppt_aspect)
        IN  IF wider /\ RIsZero(figma_width)
            THEN [NoPositioning EXCEPT !.exc = "ZeroDivisionError"]
            ELSE
            LET scale == IF wider THEN RDiv(available_width, figma_width)
                                  ELSE RDiv(available_height, figma_height)
                content_height == RMul(figma_height, scale)
                content_width == RMul(figma_width, scale)
            IN  [exc |-> "",
                 scale |-> scale,
                 offset_x |-> IF wider THEN safe_margin
                              ELSE RAdd(safe_margin,
                                        RDiv(RSub(available_width, content_width), RInt(2))),
                 offset_y |-> IF wider
                              THEN RAdd(safe_margin,
                                        RDiv(RSub(available_height, content_height), RInt(2)))
                              ELSE safe_margin,
                 figma_width |-> figma_width, figma_height |-> figma_height,
                 ppt_width |-> ppt_width, ppt_height |-> ppt_height,
                 available_width |-> available_width,
                 available_height |-> available_height]

NoPos == [exc |-> "", x |-> RInt(0), y |-> RInt(0), width |-> RInt(0), height |-> RInt(0)]

\* faulty variant: the default box placed at the slide's corner
default_position_corner(positioning) ==
    [exc |-> "", x |-> RInt(0), y |-> RInt(0), width |-> RInt(1), height |-> R(1, 2)]

\* lines 91-96: a layer without position data
default_position(positioning) ==
    [exc |-> "", x |-> positioning.offset_x, y |-> positioning.offset_y,
     width |-> RInt(1), height |-> R(1, 2)]

\* lines 71-96: the placement before the minimum size and the boundary checks;
\* exc = "KeyError" when a non-empty position dict lacks one of its four keys
raw_layer_position(layer, positioning) ==
    LET rel_pos == Get(layer, "relativePosition", EmptyDict)
        pos == Get(layer, "position", EmptyDict)
    IN  IF Truthy(rel_pos)
        THEN IF rel_pos.keys # BoxKeys THEN [NoPos EXCEPT !.exc = "KeyError"]
             ELSE [exc |-> "",
                   x |-> RAdd(positioning.offset_x,
                              RMul(rel_pos.x, positioning.available_width)),
                   y |-> RAdd(positioning.offset_y,
                              RMul(rel_pos.y, positioning.available_height)),
                   width |-> RMul(rel_pos.width, positioning.available_width),
                   height |-> RMul(rel_pos.height, positioning.available_height)]
        ELSE IF Truthy(pos)
        THEN IF pos.keys # BoxKeys THEN [NoPos EXCEPT !.exc = "KeyError"]
             ELSE [exc |-> "",
                   x |-> RAdd(positioning.offset_x, RMul(pos.x, positioning.scale)),
                   y |-> RAdd(positioning.offset_y, RMul(pos.y, positioning.scale)),
                   width |-> RMul(pos.width, positioning.scale),
                   height |-> RMul(pos.height, positioning.scale)]
        ELSE default_position(positioning)

\* faulty variant: the minimum size left out
min_size_none(size) == size

\* lines 99-100: max(size, 0.1)
min_size(size) == RMax(size, R(1, 10))

\* faulty variant: the lower bound 0 left out
boundary_nofloor(v, limit, size) == RMin(v, RSub(limit, size))

\* faulty variant: the upper bound limit - size left out
boundary_noceiling(v, limit, size) == RMax(RInt(0), v)

\* lines 103-104: max(0, min(v, limit - size))
boundary(v, limit, size) == RMax(RInt(0), RMin(v, RSub(limit, size)))

\* calculate_layer_position(layer, positioning, config)
calculate_layer_position(layer, positioning, config) ==
    LET raw == raw_layer_position(layer, positioning)
    IN  IF raw.exc # "" THEN raw
        ELSE
        LET width == min_size(raw.width)
            height == min_size(raw.height)
        IN  [exc |-> "",
             x |-> boundary(raw.x, positioning.ppt_width, width),
             y |-> boundary(raw.y, positioning.ppt_height, height),
             width |-> width, height |-> height]

\* faulty variant: the clamp of line 131 left out
scale_font_size_unclamped(figma_font_size, scale_factor) ==
    RMul(RMul(figma_font_size, R(3, 4)), scale_factor)

\* scale_font_size(figma_font_size, scale_factor)
scale_font_size(figma_font_size, scale_factor) ==
    LET base_pt_size == RMul(figma_font_size, R(3, 4))
        scaled_size == RMul(base_pt_size, scale_factor)
    IN  RMax(RInt(8), RMin(RInt(72), scaled_size))

---------------------------------------------------------------------------
(* utils/fonts.py (map_figma_font, which only chooses the font name, is    *)
(* not modelled).                                                          *)

S_left == <<"l", "e", "f", "t">>
S_center == <<"c", "e", "n", "t", "e", "r">>
S_right == <<"r", "i", "g", "h", "t">>
S_top == <<"t", "o", "p">>
S_middle == <<"m", "i", "d", "d", "l", "e">>
S_bottom == <<"b", "o", "t", "t", "o", "m">>

\* map_text_alignment(figma_align), for a string
map_text_alignment(figma_align) ==
    LET a == Lower(figma_align)
    IN  CASE a = S_left -> "LEFT"
          [] a = S_center -> "CENTER"
          [] a = S_right -> "RIGHT"
          [] a \in {<<"j", "u", "s", "t", "i", "f", "i", "e", "d">>,
                    <<"j", "u", "s", "t", "i", "f", "y">>} -> "JUSTIFY"
          [] OTHER -> "LEFT"

\* map_vertical_alignment(figma_valign), for a string
map_vertical_alignment(figma_valign) ==
    LET a == Lower(figma_valign)
    IN  CASE a = S_top -> "TOP"
          [] a \in {S_center, S_middle} -> "MIDDLE"
          [] a = S_bottom -> "BOTTOM"
          [] OTHER -> "TOP"

BoldIndicators ==
    {<<"b", "o", "l", "d">>, <<"s", "e", "m", "i", "b", "o", "l", "d">>,
     <<"e", "x", "t", "r", "a", "b", "o", "l", "d">>, <<"6", "0", "0">>,
     <<"7", "0", "0">>, <<"8", "0", "0">>, <<"9", "0", "0">>}

\* is_bold_weight(font_weight), lines 161-176
is_bold_weight(font_weight) ==
    /\ font_weight # <<>>
    /\ \E indicator \in BoldIndicators : Contains(Lower(font_weight), indicator)

\* is_italic_style(font_weight), lines 178-191
is_italic_style(font_weight) ==
    /\ font_weight # <<>>
    /\ \/ Contains(Lower(font_weight), <<"i", "t", "a", "l", "i", "c">>)
       \/ Contains(Lower(font_weight), <<"o", "b", "l", "i", "q", "u", "e">>)

---------------------------------------------------------------------------
(* Input dicts of the pipeline and the shapes of the output document.      *)

StyleKeys == {"fontSize", "fontWeight", "color", "textAlign", "verticalAlign",
              "fill", "stroke", "strokeWidth"}

\* the style dict {}
EmptyStyle ==
    [keys |-> {}, fontSize |-> JNull, fontWeight |-> JNull, color |-> JNull,
     textAlign |-> JNull, verticalAlign |-> JNull, fill |-> JNull, stroke |-> JNull,
     strokeWidth |-> JNull]

LayerKeys == {"type", "id", "position", "relativePosition", "zIndex", "style",
              "content", "imageData", "shapeType"}

\* a layer dict without any key; imageData is "" (the empty string), "png" (a
\* base64 picture), "datauri" (the same behind a data:image...,  prefix) or
\* "garbage" (a string that does not decode to a picture)
EmptyLayer ==
    [keys |-> {}, type |-> "", id |-> 0, position |-> EmptyDict,
     relativePosition |-> EmptyDict, zIndex |-> 0, style |-> EmptyStyle,
     content |-> <<>>, imageData |-> "", shapeType |-> ""]

\* a shape of an output slide: `origin` is the id of the layer it was made
\* for (0: the slide background), `attrs` the properties assigned so far
NoShape ==
    [origin |-> 0, kind |-> "none", x |-> RInt(0), y |-> RInt(0),
     width |-> RInt(0), height |-> RInt(0), attrs |-> {},
     text |-> <<>>, font_size |-> RInt(0), bold |-> FALSE, italic |-> FALSE,
     color |-> Black, alignment |-> "", vertical_anchor |-> "",
     auto_shape |-> "", fill |-> "", fill_rgb |-> Black,
     line |-> "", line_rgb |-> Black, line_width |-> RInt(0)]

\* slide.shapes.add_textbox / add_shape / add_picture at a placement
NewShape(kind, layer, pos) ==
    [NoShape EXCEPT !.origin = layer.id, !.kind = kind, !.x = pos.x, !.y = pos.y,
                    !.width = pos.width, !.height = pos.height]

\* the outcome of adding a layer: the exception raised ("" for none) and the
\* shapes the slide has gained by then
Outcome(exc, shapes) == [exc |-> exc, shapes |-> shapes]

---------------------------------------------------------------------------
(* pptx_generator.py                                                       *)

S_Bold == <<"B", "o", "l", "d">>
S_700 == <<"7", "0", "0">>
S_Italic == <<"I", "t", "a", "l", "i", "c">>
S_Regular == <<"R", "e", "g", "u", "l", "a", "r">>
S_transparent == <<"t", "r", "a", "n", "s", "p", "a", "r", "e", "n", "t">>
S_none == <<"n", "o", "n", "e">>

TextAttrs == {"text", "font_size", "bold", "italic", "color", "alignment",
              "vertical_anchor", "margins", "word_wrap", "auto_size"}

\* add_text_layer(slide, layer, positioning, config)
add_text_layer(layer, positioning, config) ==
    LET pos == calculate_layer_position(layer, positioning, config)
        style == Get(layer, "style", EmptyStyle)
        font_size == Get(style, "fontSize", JNum(RInt(16)))
        font_weight == Get(style, "fontWeight", JStr(S_Regular))
        color_hex == Get(style, "color", JStr(<<"#", "0", "0", "0", "0", "0", "0">>))
        text_align == Get(style, "textAlign", JStr(S_left))
        vertical_align == Get(style, "verticalAlign", JStr(S_top))
        rgb == hex_to_rgb(color_hex)
        s0 == [NewShape("textbox", layer, pos) EXCEPT
                  !.text = Get(layer, "content", <<>>), !.attrs = {"text"}]
        s1 == [s0 EXCEPT
                  !.font_size = RMax(RInt(8), scale_font_size(font_size.v, positioning.scale)),
                  !.attrs = @ \cup {"font_size"}]
        s2 == [s1 EXCEPT
                  !.bold = Contains(font_weight.s, S_Bold) \/ Contains(font_weight.s, S_700),
                  !.italic = Contains(font_weight.s, S_Italic),
                  !.attrs = @ \cup {"bold", "italic"}]
        s3 == [s2 EXCEPT !.color = rgb.rgb, !.attrs = @ \cup {"color"}]
        s4 == [s3 EXCEPT !.alignment = map_text_alignment(text_align.s),
                         !.attrs = @ \cup {"alignment"}]
        s5 == [s4 EXCEPT !.vertical_anchor = map_vertical_alignment(vertical_align.s),
                         !.attrs = TextAttrs]
    IN  CASE pos.exc # "" -> Outcome(pos.exc, <<>>)
          [] font_size.t # "num" -> Outcome("TypeError", <<s0>>)
          [] font_weight.t # "str" -> Outcome("TypeError", <<s1>>)
          [] rgb.exc # "" -> Outcome(rgb.exc, <<s2>>)
          [] text_align.t # "str" -> Outcome("AttributeError", <<s3>>)
          [] vertical_align.t # "str" -> Outcome("AttributeError", <<s4>>)
          [] OTHER -> Outcome("", <<s5>>)

\* line 226: fill_color and fill_color != 'transparent' and fill_color != 'none'
solid_fill_wanted(fill_color) ==
    /\ JTruthy(fill_color)
    /\ ~(fill_color.t = "str" /\ fill_color.s = S_transparent)
    /\ ~(fill_color.t = "str" /\ fill_color.s = S_none)

ShapeAttrs == {"fill", "line", "shadow"}

\* add_shape_layer(slide, layer, positioning, config)
add_shape_layer(layer, positioning, config) ==
    LET pos == calculate_layer_position(layer, positioning, config)
        style == Get(layer, "style", EmptyStyle)
        shape_type == Get(layer, "shapeType", "rectangle")
        fill_color == Get(style, "fill", JStr(S_transparent))
        stroke_color == Get(style, "stroke", JNull)
        stroke_width == Get(style, "strokeWidth", JNum(RInt(0)))
        solid == solid_fill_wanted(fill_color)
        fill_rgb == hex_to_rgb(fill_color)
        stroke_named == JTruthy(stroke_color)
                          /\ ~(stroke_color.t = "str" /\ stroke_color.s = S_transparent)
        stroked == stroke_named /\ RGt(stroke_width.v, RInt(0))
        stroke_rgb == hex_to_rgb(stroke_color)
        s0 == [NewShape("shape", layer, pos) EXCEPT
                  !.auto_shape = IF shape_type = "ellipse" THEN "OVAL" ELSE "RECTANGLE"]
        s1 == IF solid
              THEN [s0 EXCEPT !.fill = "solid", !.fill_rgb = fill_rgb.rgb, !.attrs = {"fill"}]
              ELSE [s0 EXCEPT !.fill = "background", !.attrs = {"fill"}]
        s2 == IF stroked
              THEN [s1 EXCEPT !.line = "solid", !.line_rgb = stroke_rgb.rgb,
                              !.line_width = RMax(R(1, 4),
                                                  RMul(stroke_width.v, positioning.scale)),
                              !.attrs = ShapeAttrs]
              ELSE [s1 EXCEPT !.line = "background", !.attrs = ShapeAttrs]
    IN  CASE pos.exc # "" -> Outcome(pos.exc, <<>>)
          [] solid /\ fill_rgb.exc # "" -> Outcome(fill_rgb.exc, <<s0>>)
          [] stroke_named /\ stroke_width.t # "num" -> Outcome("TypeError", <<s1>>)
          [] stroked /\ stroke_rgb.exc # "" -> Outcome(stroke_rgb.exc, <<s1>>)
          [] OTHER -> Outcome("", <<s2>>)

\* base64.b64decode and add_picture succeed on the image data
Decodable(image_data) == image_data \in {"png", "datauri"}

\* add_image_layer(slide, layer, positioning, config): every exception of
\* lines 266-284 is caught inside the function
add_image_layer(layer, positioning, config) ==
    LET image_data == Get(layer, "imageData", "")
        pos == calculate_layer_position(layer, positioning, config)
    IN  IF image_data = "" THEN Outcome("", <<>>)
        ELSE IF ~Decodable(image_data) \/ pos.exc # "" THEN Outcome("", <<>>)
        ELSE Outcome("", <<[NewShape("picture", layer, pos) EXCEPT !.attrs = {"image"}]>>)

LayerTypes == {"TEXT", "SHAPE", "IMAGE"}

\* faulty variant: the content check of lines 109-112 left out
process_layer_anytext(layer, positioning, config) ==
    LET layer_type == Get(layer, "type", "")
    IN  CASE layer_type = "TEXT" -> add_text_layer(layer, positioning, config)
          [] layer_type = "SHAPE" -> add_shape_layer(layer, positioning, config)
          [] layer_type = "IMAGE" -> add_image_layer(layer, positioning, config)
          [] OTHER -> Outcome("", <<>>)

\* process_layer(slide, layer, positioning, config)
process_layer(layer, positioning, config) ==
    LET layer_type == Get(layer, "type", "")
    IN  IF layer_type = "" THEN Outcome("", <<>>)
        ELSE IF layer_type \notin LayerTypes THEN Outcome("", <<>>)
        ELSE IF layer_type = "TEXT"
             THEN IF Strip(Get(layer, "content", <<>>)) = <<>> THEN Outcome("", <<>>)
                  ELSE add_text_layer(layer, positioning, config)
        ELSE IF layer_type = "SHAPE" THEN add_shape_layer(layer, positioning, config)
        ELSE add_image_layer(layer, positioning, config)

EmptyBackground == [keys |-> {}, type |-> "", color |-> JNull, imageData |-> ""]

\* set_slide_background(slide, background, config): the exception raised, the
\* background fill and the shapes added (the full-canvas picture)
set_slide_background(background, config) ==
    LET bg_type == Get(background, "type", "")
        rgb == hex_to_rgb(Get(background, "color",
                              JStr(<<"#", "F", "F", "F", "F", "F", "F">>)))
        full == [exc |-> "", x |-> RInt(0), y |-> RInt(0),
                 width |-> config.slideWidth, height |-> config.slideHeight]
    IN  IF ~Truthy(background) THEN [exc |-> "", fill |-> "none", rgb |-> Black, shapes |-> <<>>]
        ELSE IF bg_type = "SOLID"
        THEN IF rgb.exc # "" THEN [exc |-> rgb.exc, fill |-> "none", rgb |-> Black, shapes |-> <<>>]
             ELSE [exc |-> "", fill |-> "solid", rgb |-> rgb.rgb, shapes |-> <<>>]
        ELSE IF bg_type = "IMAGE" /\ Decodable(Get(background, "imageData", ""))
        THEN [exc |-> "", fill |-> "none", rgb |-> Black,
              shapes |-> <<[NewShape("picture", EmptyLayer, full) EXCEPT !.attrs = {"image"}]>>]
        ELSE [exc |-> "", fill |-> "none", rgb |-> Black, shapes |-> <<>>]

\* key=lambda x: x.get('zIndex', 0)
ZKey(layer) == Get(layer, "zIndex", 0)

\* list.sort / sorted by the zIndex key: a stable ascending sort (each layer
\* is inserted behind every layer already placed whose key is not greater)
RECURSIVE SortByZIndex(_)
SortByZIndex(layers) ==
    IF layers = <<>> THEN <<>>
    ELSE LET init == SortByZIndex(SubSeq(layers, 1, Len(layers) - 1))
             last == layers[Len(layers)]
             before == SelectSeq(init, LAMBDA l : ZKey(l) <= ZKey(last))
             after == SelectSeq(init, LAMBDA l : ZKey(l) > ZKey(last))
         IN  before \o <<last>> \o after

Reverse(seq) == [i \in 1 .. Len(seq) |-> seq[Len(seq) + 1 - i]]

\* faulty variant: reverse=True
sort_layers_reversed(layers) == Reverse(SortByZIndex(layers))

\* create_presentation line 62: sorted(layers, key=..., reverse=False)
sort_layers(layers) == SortByZIndex(layers)

---------------------------------------------------------------------------
(* figma_processor.py                                                      *)

\* lines 54-66: the processed layer, every key present
processed_layer(layer) ==
    [keys |-> LayerKeys,
     type |-> Get(layer, "type", ""),
     id |-> Get(layer, "id", 0),
     position |-> Get(layer, "position", EmptyDict),
     relativePosition |-> Get(layer, "relativePosition", EmptyDict),
     zIndex |-> Get(layer, "zIndex", 0),
     style |-> Get(layer, "style", EmptyStyle),
     content |-> Get(layer, "content", <<>>),
     imageData |-> Get(layer, "imageData", ""),
     shapeType |-> Get(layer, "shapeType", "")]

\* process_layers(layers)
process_layers(layers) ==
    LET all == [i \in 1 .. Len(layers) |-> processed_layer(layers[i])]
        valid == SelectSeq(all, LAMBDA l : l.type \in LayerTypes)
    IN  SortByZIndex(valid)

SlideKeys == {"width", "height", "background", "layers"}

\* lines 19-28: the processed slide
processed_slide(slide) ==
    [keys |-> SlideKeys,
     width |-> Get(slide, "width", RInt(1920)),
     height |-> Get(slide, "height", RInt(1080)),
     background |-> Get(slide, "background", EmptyBackground),
     layers |-> process_layers(Get(slide, "layers", <<>>))]

\* process_figma_data(figma_data)
process_figma_data(data) ==
    LET slides == Get(data, "slides", <<>>)
    IN  [slides |-> [i \in 1 .. Len(slides) |-> processed_slide(slides[i])],
         config |-> DefaultConfig]

---------------------------------------------------------------------------
(* The conversion request: app.convert_figma_to_pptx and                   *)
(* pptx_generator.create_presentation, one step per loop iteration.        *)

NoResponse == [status |-> 0, file |-> <<>>]

\* an output slide: its background fill and its shapes in paint order
NewSlide == [fill |-> "none", rgb |-> Black, shapes |-> <<>>]

\* a request whose body is not a JSON object: JSON null ("null"), a
\* non-empty JSON array ("array"), zero bytes sent as application/json
\* ("empty"), or no body and no JSON content type ("absent")
NoBody(body) == [body |-> body, keys |-> {}, slides |-> <<>>]

\* faulty variant: the new slide put in front of the others
add_slide_first(slides, slide) == <<slide>> \o slides

\* prs.slides.add_slide (pptx_generator.py line 50): the new slide is the last
add_slide(slides, slide) == Append(slides, slide)

PipelineIdle ==
    /\ pc = "idle"
    /\ figma_data = NoBody("absent")
    /\ processed_data = [slides |-> <<>>, config |-> DefaultConfig]
    /\ slide_index = 0
    /\ slide_positioning = NoPositioning
    /\ sorted_layers = <<>>
    /\ layer_index = 0
    /\ prs = <<>>
    /\ response = NoResponse
    /\ log = <<>>

LayoutIdle ==
    /\ lp_stage = "idle"
    /\ lp_slide = [keys |-> {}, width |-> RInt(0), height |-> RInt(0)]
    /\ lp_config = DefaultConfig
    /\ lp_layer = [keys |-> {}, relativePosition |-> EmptyDict, position |-> EmptyDict]
    /\ lp_positioning = NoPositioning
    /\ lp_pos = NoPos

NoArg == [fn |-> "", size |-> RInt(0), scale |-> RInt(0), str |-> <<>>]
NoRes == [exc |-> "", size |-> RInt(0), written |-> RInt(0), rgb |-> Black, hex |-> <<>>]

UtilIdle ==
    /\ u_stage = "idle"
    /\ u_arg = NoArg
    /\ u_res = NoRes

\* app.py lines 31-39 and 60-65: the body is parsed and validated.
\* request.get_json() raises BadRequest for a body that is not JSON; for a
\* request without JSON content type it returns None or raises
\* UnsupportedMediaType, depending on the Flask release installed (the
\* repository pins none). Both exceptions, and the AttributeError of .get on
\* a list, are caught at line 60 and answered with status 500.
Receive ==
    /\ pc = "request"
    /\ \/ /\ figma_data.body \in {"empty", "array", "absent"}
          /\ response' = [status |-> 500, file |-> <<>>]
          /\ pc' = "done"
       \/ /\ \/ figma_data.body \in {"null", "absent"}
             \/ figma_data.body = "object" /\ Get(figma_data, "slides", <<>>) = <<>>
          /\ response' = [status |-> 400, file |-> <<>>]
          /\ pc' = "done"
       \/ /\ figma_data.body = "object"
          /\ Get(figma_data, "slides", <<>>) # <<>>
          /\ pc' = "process"
          /\ UNCHANGED response
    /\ UNCHANGED <<figma_data, processed_data, slide_index, slide_positioning, sorted_layers,
                   layer_index, prs, log>>
    /\ UNCHANGED <<lp_vars, util_vars>>

\* create_presentation lines 30-43: the data is processed, the presentation
\* created empty
Process ==
    /\ pc = "process"
    /\ processed_data' = process_figma_data(figma_data)
    /\ prs' = <<>>
    /\ slide_index' = 0
    /\ pc' = "slides"
    /\ UNCHANGED <<figma_data, slide_positioning, sorted_layers, layer_index, response, log>>
    /\ UNCHANGED <<lp_vars, util_vars>>

\* lines 46-64: the next slide is added, its positioning computed, its
\* background set and its layers sorted; an exception of
\* calculate_positioning or set_slide_background leaves create_presentation
\* and is answered with status 500 (app.py lines 60-65)
BeginSlide ==
    /\ pc = "slides"
    /\ slide_index < Len(processed_data.slides)
    /\ LET slide_data == processed_data.slides[slide_index + 1]
           config == processed_data.config
           pos == calculate_positioning(slide_data, config)
           bg == set_slide_background(slide_data.background, config)
       IN  IF pos.exc # "" \/ bg.exc # ""
           THEN /\ response' = [status |-> 500, file |-> <<>>]
                /\ pc' = "done"
                /\ prs' = add_slide(prs, NewSlide)
                /\ UNCHANGED <<slide_index, slide_positioning, sorted_layers, layer_index>>
           ELSE /\ prs' = add_slide(prs, [fill |-> bg.fill, rgb |-> bg.rgb,
                                            shapes |-> bg.shapes])
                /\ slide_positioning' = pos
                /\ sorted_layers' = sort_layers(slide_data.layers)
                /\ slide_index' = slide_index + 1
                /\ layer_index' = 0
                /\ pc' = "layers"
                /\ UNCHANGED response
    /\ UNCHANGED <<figma_data, processed_data, log>>
    /\ UNCHANGED <<lp_vars, util_vars>>

\* faulty variant: placing a layer moves the positioning context on, past
\* the layer placed
ProcessLayer_drift ==
    /\ pc = "layers"
    /\ layer_index < Len(sorted_layers)
    /\ LET layer == sorted_layers[layer_index + 1]
           out == process_layer(layer, slide_positioning, processed_data.config)
           slide == prs[Len(prs)]
       IN  /\ prs' = [prs EXCEPT ![Len(prs)] = [slide EXCEPT !.shapes = @ \o out.shapes]]
           /\ log' = Append(log, <<slide_index, layer.id,
                                   IF out.exc # "" THEN "error" ELSE "done">>)
    /\ layer_index' = layer_index + 1
    /\ slide_positioning' = [slide_positioning EXCEPT !.offset_y = RAdd(@, R(1, 2))]
    /\ UNCHANGED <<pc, figma_data, processed_data, slide_index, sorted_layers, response>>
    /\ UNCHANGED <<lp_vars, util_vars>>

\* lines 66-72: one layer is processed; the shapes it has added stay on the
\* slide whether or not it raised
ProcessLayer ==
    /\ pc = "layers"
    /\ layer_index < Len(sorted_layers)
    /\ LET layer == sorted_layers[layer_index + 1]
           out == process_layer(layer, slide_positioning, processed_data.config)
           slide == prs[Len(prs)]
       IN  /\ prs' = [prs EXCEPT ![Len(prs)] = [slide EXCEPT !.shapes = @ \o out.shapes]]
           /\ log' = Append(log, <<slide_index, layer.id,
                                   IF out.exc # "" THEN "error" ELSE "done">>)
    /\ layer_index' = layer_index + 1
    /\ UNCHANGED <<pc, figma_data, processed_data, slide_index, slide_positioning,
                   sorted_layers, response>>
    /\ UNCHANGED <<lp_vars, util_vars>>

\* lines 74-76: the slide's layers are exhausted
EndSlide ==
    /\ pc = "layers"
    /\ layer_index = Len(sorted_layers)
    /\ pc' = "slides"
    /\ UNCHANGED <<figma_data, processed_data, slide_index, slide_positioning, sorted_layers,
                   layer_index, prs, response, log>>
    /\ UNCHANGED <<lp_vars, util_vars>>

\* lines 78-84 and app.py lines 47-58: the presentation is saved and sent
Save ==
    /\ pc = "slides"
    /\ slide_index = Len(processed_data.slides)
    /\ response' = [status |-> 200, file |-> prs]
    /\ pc' = "done"
    /\ UNCHANGED <<figma_data, processed_data, slide_index, slide_positioning, sorted_layers,
                   layer_index, prs, log>>
    /\ UNCHANGED <<lp_vars, util_vars>>

Next == Receive \/ Process \/ BeginSlide \/ ProcessLayer \/ EndSlide \/ Save

---------------------------------------------------------------------------
(* The requests explored.                                                  *)

\* longest layer list of the slides whose layers are enumerated
MaxLayers == 2

\* most slides of the documents composed from SlidePool
MaxSlides == 2

Style(keys, st) == [st EXCEPT !.keys = keys]

\* layers as the plugin sends them (id and zIndex are set by Numbered)
TextLayer(content, rel, style) ==
    [EmptyLayer EXCEPT !.keys = {"type", "content", "relativePosition", "style"},
                       !.type = "TEXT", !.content = content,
                       !.relativePosition = rel, !.style = style]

ShapeLayer(shape_type, rel, pos, style) ==
    [EmptyLayer EXCEPT !.keys = {"type", "shapeType", "relativePosition", "position", "style"},
                       !.type = "SHAPE", !.shapeType = shape_type,
                       !.relativePosition = rel, !.position = pos, !.style = style]

ImageLayer(image_data, rel) ==
    [EmptyLayer EXCEPT !.keys = {"type", "imageData", "relativePosition"},
                       !.type = "IMAGE", !.imageData = image_data,
                       !.relativePosition = rel]

OtherLayer(type) ==
    IF type = "" THEN [EmptyLayer EXCEPT !.keys = {"position"}]
    ELSE [EmptyLayer EXCEPT !.keys = {"type", "position"}, !.type = type]

S_Hi == <<"H", "i">>
S_red == <<"#", "F", "F", "0", "0", "0", "0">>

Quarter == Box(R(1, 4), R(1, 4), R(1, 2), R(1, 4))
PixelBox == Box(RInt(100), RInt(50), RInt(400), RInt(300))

\* a relative position lacking width and height
HalfBox == [EmptyDict EXCEPT !.keys = {"x", "y"}]

K_Text == TextLayer(S_Hi, Quarter, EmptyStyle)
K_Blank == TextLayer(<<" ", "\n">>, Quarter, EmptyStyle)
\* fontWeight sent as the number 700
K_NumWeight ==
    TextLayer(S_Hi, Quarter,
              Style({"fontWeight"}, [EmptyStyle EXCEPT !.fontWeight = JNum(RInt(700))]))
K_Shape ==
    ShapeLayer("rectangle", EmptyDict, PixelBox,
               Style({"fill"}, [EmptyStyle EXCEPT !.fill = JStr(S_red)]))
K_HalfBox == ShapeLayer("ellipse", HalfBox, EmptyDict, EmptyStyle)
K_Image == ImageLayer("png", Quarter)
K_NoImage == [EmptyLayer EXCEPT !.keys = {"type", "relativePosition"}, !.type = "IMAGE",
                                !.relativePosition = Quarter]
K_Group == OtherLayer("GROUP")

\* layers of a valid type without position data: an empty relativePosition,
\* neither key, both keys empty
K_UnplacedText == TextLayer(S_Hi, EmptyDict, EmptyStyle)
K_UnplacedShape ==
    [EmptyLayer EXCEPT !.keys = {"type", "shapeType"}, !.type = "SHAPE",
                       !.shapeType = "ellipse"]
K_UnplacedImage ==
    [ImageLayer("png", EmptyDict) EXCEPT !.keys = @ \cup {"position"}]

\* the layer kinds of the slides whose layer lists are enumerated
KindPool == {K_Text, K_Blank, K_NumWeight, K_Shape, K_HalfBox, K_Image, K_NoImage, K_Group}

\* zIndex values; "absent" stands for a layer without the key
ZPool == {"absent", "-1", "0", "5"}

ZValue(z) == CASE z = "-1" -> -1 [] z = "5" -> 5 [] OTHER -> 0

WithZ(layer, z) ==
    IF z = "absent" THEN layer
    ELSE [layer EXCEPT !.keys = @ \cup {"zIndex"}, !.zIndex = ZValue(z)]

\* the layers of a list get their position in the list as id
Numbered(layers) ==
    [i \in 1 .. Len(layers) |-> [layers[i] EXCEPT !.keys = @ \cup {"id"}, !.id = i]]

\* a layer of an enumerated layer list: a kind with a zIndex
LayerChoices == {WithZ(k, z) : k \in KindPool, z \in ZPool}

\* shapes and texts, one per slide, that differ in their style alone
StyledShape(keys, st) == ShapeLayer("rectangle", Quarter, EmptyDict, Style(keys, st))
StyledText(keys, st) == TextLayer(S_Hi, Quarter, Style(keys, st))

\* style.fontWeight strings: names and numbers in the spellings the plugin
\* and hand-written documents use
FontWeights ==
    {S_Regular, S_Bold, S_Italic, S_700, <<>>,
     <<"b", "o", "l", "d">>, <<"B", "O", "L", "D">>,
     <<"S", "e", "m", "i", "B", "o", "l", "d">>, <<"S", "e", "m", "i", "b", "o", "l", "d">>,
     <<"6", "0", "0">>, <<"8", "0", "0">>, <<"9", "0", "0">>, <<"4", "0", "0">>,
     <<"i", "t", "a", "l", "i", "c">>, <<"O", "b", "l", "i", "q", "u", "e">>,
     <<"B", "o", "l", "d", " ", "O", "b", "l", "i", "q", "u", "e">>,
     <<"M", "e", "d", "i", "u", "m", " ", "I", "t", "a", "l", "i", "c">>}

FillValues ==
    {JStr(S_transparent), JStr(S_none), JStr(<<>>), JNull, JObj, JStr(S_red),
     JStr(<<"T", "r", "a", "n", "s", "p", "a", "r", "e", "n", "t">>),
     JStr(<<"N", "O", "N", "E">>), JStr(<<"0", "a", "F">>), JStr(<<"r", "e", "d">>)}

StyledLayers ==
    {StyledShape({"fill"}, [EmptyStyle EXCEPT !.fill = f]) : f \in FillValues}
    \cup {ShapeLayer("star", Quarter, EmptyDict, EmptyStyle),
          [K_Shape EXCEPT !.keys = @ \ {"style"}],
          StyledShape({"fill", "stroke", "strokeWidth"},
                      [EmptyStyle EXCEPT !.fill = JStr(S_red), !.stroke = JStr(S_red),
                                         !.strokeWidth = JNum(RInt(2))]),
          StyledShape({"stroke", "strokeWidth"},
                      [EmptyStyle EXCEPT !.stroke = JStr(S_red),
                                         !.strokeWidth = JStr(<<"2">>)]),
          StyledShape({"stroke", "strokeWidth"},
                      [EmptyStyle EXCEPT !.stroke = JObj, !.strokeWidth = JNum(RInt(2))]),
          StyledText({"fontWeight", "color", "fontSize", "textAlign", "verticalAlign"},
                     [EmptyStyle EXCEPT !.fontWeight = JStr(<<"B", "o", "l", "d", " ", "I", "t", "a", "l", "i", "c">>),
                                        !.color = JStr(<<"0", "a", "F">>),
                                        !.fontSize = JNum(RInt(4000)),
                                        !.textAlign = JStr(<<"C", "e", "n", "t", "e", "r">>),
                                        !.verticalAlign = JStr(S_middle)]),
          StyledText({"fontSize"}, [EmptyStyle EXCEPT !.fontSize = JStr(<<"1", "6">>)]),
          K_UnplacedText, K_UnplacedShape, K_UnplacedImage}
    \cup {StyledText({"fontWeight"}, [EmptyStyle EXCEPT !.fontWeight = JStr(w)]) :
             w \in FontWeights}
    \cup {StyledText({"color"}, [EmptyStyle EXCEPT !.color = JObj]),
          StyledText({"textAlign"}, [EmptyStyle EXCEPT !.textAlign = JNull]),
          StyledText({"verticalAlign"}, [EmptyStyle EXCEPT !.verticalAlign = JNum(RInt(1))]),
          ImageLayer("garbage", Quarter), ImageLayer("datauri", Quarter),
          ImageLayer("png", HalfBox), OtherLayer("")}

\* a slide dict
Slide(keys, w, h, background, layers) ==
    [keys |-> keys, width |-> RInt(w), height |-> RInt(h), background |-> background,
     layers |-> layers]

PlainSlide(layers) == Slide({"layers"}, 0, 0, EmptyBackground, layers)

SolidBackground(color) ==
    [keys |-> {"type", "color"}, type |-> "SOLID", color |-> color, imageData |-> ""]

ImageBackground(image_data) ==
    [keys |-> {"type", "imageData"}, type |-> "IMAGE", color |-> JNull,
     imageData |-> image_data]

\* the slides the multi-slide documents are composed of: well-formed ones
\* (default and explicit dimensions, each kind of background) and ones whose
\* dimensions or background are malformed
SlidePool ==
    {PlainSlide(Numbered(<<K_Text, K_Shape>>)),
     Slide(SlideKeys, 1920, 1080, SolidBackground(JStr(S_red)),
           Numbered(<<WithZ(K_Shape, "5"), WithZ(K_NumWeight, "0"), WithZ(K_Image, "0")>>)),
     Slide(SlideKeys, 800, 600, ImageBackground("png"), Numbered(<<K_Image, K_UnplacedText>>)),
     Slide(SlideKeys, 800, 600, ImageBackground("garbage"), Numbered(<<K_HalfBox, K_Text>>)),
     Slide(SlideKeys, 1920, 0, EmptyBackground, Numbered(<<K_Text>>)),
     Slide(SlideKeys, -1920, 1080, EmptyBackground, Numbered(<<K_Shape, K_UnplacedShape>>)),
     Slide({"background", "layers"}, 0, 0, SolidBackground(JObj), Numbered(<<K_Text>>)),
     Slide({"background"}, 0, 0, [EmptyBackground EXCEPT !.keys = {"type"}, !.type = "SOLID"],
           <<>>)}

Document(slides) == [body |-> "object", keys |-> {"slides"}, slides |-> slides]

\* the requests without slides: no body, an empty body, the bodies null,
\* {} and [1], an object without the slides key (it has fileName) and one
\* with an empty slides list
BadRequests ==
    {NoBody("absent"), NoBody("empty"), NoBody("null"), NoBody("array"),
     [body |-> "object", keys |-> {}, slides |-> <<>>],
     [body |-> "object", keys |-> {"fileName"}, slides |-> <<>>],
     Document(<<>>)}

\* the request is a document of up to MaxSlides slides of SlidePool, or a
\* one-slide document with any list of up to MaxLayers layers or with one
\* styled layer, or a bad request
Init ==
    /\ pc = "request"
    /\ \/ \E n \in 1 .. MaxSlides : \E f \in [1 .. n -> SlidePool] :
             figma_data = Document(f)
       \/ \E n \in 0 .. MaxLayers : \E f \in [1 .. n -> LayerChoices] :
             figma_data = Document(<<PlainSlide(Numbered(f))>>)
       \/ \E l \in StyledLayers : figma_data = Document(<<PlainSlide(Numbered(<<l>>))>>)
       \/ figma_data \in BadRequests
    /\ processed_data = [slides |-> <<>>, config |-> DefaultConfig]
    /\ slide_index = 0
    /\ slide_positioning = NoPositioning
    /\ sorted_layers = <<>>
    /\ layer_index = 0
    /\ prs = <<>>
    /\ response = NoResponse
    /\ log = <<>>
    /\ LayoutIdle
    /\ UtilIdle

Spec == Init /\ [][Next]_vars

---------------------------------------------------------------------------
(* The layout functions applied to swept inputs.                           *)

\* resolution of the coordinate grid: fractions k/GridN of the reference length
GridN == 2

\* fractions from below 0 to above 1 (outside the canvas on both sides)
Fracs == {R(k, GridN) : k \in -1 .. (GridN + 1)}

\* source canvases: 16:9, portrait, square, panorama, the exact aspect of the
\* default available area (9.4 : 5.025), 4:3, and a negative width
LP_Dims == {<<1920, 1080>>, <<1080, 1920>>, <<1000, 1000>>, <<4000, 1000>>,
            <<1880, 1005>>, <<800, 600>>, <<-1920, 1080>>}

SlideDict(w, h) == [keys |-> {"width", "height"}, width |-> RInt(w), height |-> RInt(h)]

\* a slide dict without width and height (the defaults 1920 x 1080 apply)
BareSlide == [keys |-> {}, width |-> RInt(0), height |-> RInt(0)]

LP_Slides == {SlideDict(wh[1], wh[2]) : wh \in LP_Dims} \cup {BareSlide}

\* the conversion config, and two other target canvases (4:3 with a wide
\* margin, a square one) for calculate_positioning alone: the layers are
\* swept under the config every conversion uses
LP_Configs ==
    {DefaultConfig,
     [slideWidth |-> RInt(10), slideHeight |-> R(15, 2), safeMargin |-> R(1, 2)],
     [slideWidth |-> RInt(6), slideHeight |-> RInt(6), safeMargin |-> R(1, 4)]}

LayerDict(rel, pos) ==
    [keys |-> {"relativePosition", "position"}, relativePosition |-> rel, position |-> pos]

\* the source width and height a slide dict stands for
SourceW(slide) == Get(slide, "width", RInt(1920))
SourceH(slide) == Get(slide, "height", RInt(1080))

\* layers of a slide: relative boxes on the grid, absolute boxes on the grid
\* scaled to the source canvas, a layer without any position, and a
\* relative box lacking its size keys
LP_Layers(slide) ==
    {LayerDict(Box(x, y, w, h), EmptyDict) : x \in Fracs, y \in Fracs, w \in Fracs, h \in Fracs}
    \cup {LayerDict(EmptyDict, Box(RMul(x, SourceW(slide)), RMul(y, SourceH(slide)),
                                   RMul(w, SourceW(slide)), RMul(h, SourceH(slide)))) :
             x \in Fracs, y \in Fracs, w \in Fracs, h \in Fracs}
    \cup {LayerDict(EmptyDict, EmptyDict),
          LayerDict([EmptyDict EXCEPT !.keys = {"x", "y"}], EmptyDict)}

LayoutInit ==
    /\ lp_stage = "in"
    /\ lp_slide \in LP_Slides
    /\ lp_config \in LP_Configs
    /\ lp_layer \in IF lp_config = DefaultConfig THEN LP_Layers(lp_slide)
                    ELSE {LayerDict(EmptyDict, EmptyDict)}
    /\ lp_positioning = NoPositioning
    /\ lp_pos = NoPos
    /\ PipelineIdle
    /\ UtilIdle

LP_Positioning ==
    /\ lp_stage = "in"
    /\ lp_positioning' = calculate_positioning(lp_slide, lp_config)
    /\ lp_stage' = IF lp_positioning'.exc = "" THEN "positioned" ELSE "raised"
    /\ UNCHANGED <<lp_slide, lp_config, lp_layer, lp_pos>>
    /\ UNCHANGED <<pipe_vars, util_vars>>

LP_LayerPosition ==
    /\ lp_stage = "positioned"
    /\ lp_pos' = calculate_layer_position(lp_layer, lp_positioning, lp_config)
    /\ lp_stage' = IF lp_pos'.exc = "" THEN "placed" ELSE "raised"
    /\ UNCHANGED <<lp_slide, lp_config, lp_layer, lp_positioning>>
    /\ UNCHANGED <<pipe_vars, util_vars>>

LayoutNext == LP_Positioning \/ LP_LayerPosition

LayoutSpec == LayoutInit /\ [][LayoutNext]_vars

---------------------------------------------------------------------------
(* The font-size and colour utilities applied to swept inputs.             *)

\* longest colour string body enumerated (before an optional '#' in front
\* and an optional newline behind)
MaxHexLen == 6

\* characters of the colour strings: a digit, a lower-case and an upper-case
\* hexadecimal letter, and a letter that is not hexadecimal
HexAlphabet == {"0", "a", "F", "g"}

\* source font sizes: zero, negative, tiny, ordinary, huge
FontSizes == {RInt(0), RInt(-16), R(1, 100), RInt(8), RInt(16), RInt(96), RInt(4000)}

\* scale factors: zero, negative, tiny, the one of a 1920 x 1080 slide, 1, huge
ScaleFactors == {RInt(0), RInt(-1), R(1, 1000), R(67, 14400), RInt(1), RInt(1000)}

\* a TEXT layer with the given style.fontSize
SizedText(size) ==
    TextLayer(S_Hi, Quarter, Style({"fontSize"}, [EmptyStyle EXCEPT !.fontSize = JNum(size)]))

\* the positioning of a default slide with its scale replaced
ScaledPositioning(scale) ==
    [calculate_positioning(PlainSlide(<<>>), DefaultConfig) EXCEPT !.scale = scale]

UtilInit ==
    /\ u_stage = "call"
    /\ \/ \E size \in FontSizes, scale \in ScaleFactors :
             u_arg = [NoArg EXCEPT !.fn = "scale_font_size", !.size = size, !.scale = scale]
       \/ \E n \in 0 .. MaxHexLen : \E body \in [1 .. n -> HexAlphabet] :
          \E pre \in {<<>>, <<"#">>}, suf \in {<<>>, <<"\n">>} :
             u_arg = [NoArg EXCEPT !.fn = "hex_to_rgb", !.str = pre \o body \o suf]
    /\ u_res = NoRes
    /\ PipelineIdle
    /\ LayoutIdle

\* layouts.py lines 113-131
U_ScaleFontSize ==
    /\ u_stage = "call"
    /\ u_arg.fn = "scale_font_size"
    /\ u_res' = [u_res EXCEPT !.size = scale_font_size(u_arg.size, u_arg.scale)]
    /\ u_stage' = "scaled"
    /\ UNCHANGED <<u_arg, pipe_vars, lp_vars>>

\* pptx_generator.py lines 150-155: the size add_text_layer writes on the run
U_WriteFontSize ==
    /\ u_stage = "scaled"
    /\ LET out == add_text_layer(SizedText(u_arg.size), ScaledPositioning(u_arg.scale),
                                 DefaultConfig)
       IN  u_res' = [u_res EXCEPT !.exc = out.exc, !.written = out.shapes[1].font_size]
    /\ u_stage' = "done"
    /\ UNCHANGED <<u_arg, pipe_vars, lp_vars>>

\* colors.py lines 7-39
U_HexToRgb ==
    /\ u_stage = "call"
    /\ u_arg.fn = "hex_to_rgb"
    /\ LET out == hex_to_rgb(JStr(u_arg.str))
       IN  u_res' = [u_res EXCEPT !.exc = out.exc, !.rgb = out.rgb]
    /\ u_stage' = "parsed"
    /\ UNCHANGED <<u_arg, pipe_vars, lp_vars>>

\* colors.py lines 41-51, applied to the channels hex_to_rgb returned
U_RgbToHex ==
    /\ u_stage = "parsed"
    /\ u_res.exc = ""
    /\ u_res' = [u_res EXCEPT !.hex = rgb_to_hex(u_res.rgb[1], u_res.rgb[2], u_res.rgb[3])]
    /\ u_stage' = "done"
    /\ UNCHANGED <<u_arg, pipe_vars, lp_vars>>

UtilNext == U_ScaleFontSize \/ U_WriteFontSize \/ U_HexToRgb \/ U_RgbToHex

UtilSpec == UtilInit /\ [][UtilNext]_vars

---------------------------------------------------------------------------
(* Claims on the utilities (checked under UtilSpec).                       *)

InFontRange(size) == RGe(size, RInt(8)) /\ RLe(size, RInt(72))

\* C11: for every source font size and every scale factor, zero, negative,
\* tiny or huge, scale_font_size returns a size within [8, 72], and the size
\* add_text_layer writes on the TEXT layer is within [8, 72] as well.
C11_FontSizeClamped ==
    /\ (u_arg.fn = "scale_font_size" /\ u_stage \in {"scaled", "done"}) =>
           InFontRange(u_res.size)
    /\ (u_arg.fn = "scale_font_size" /\ u_stage = "done") =>
           u_res.exc = "" /\ InFontRange(u_res.written)

\* a huge size at a huge scale has been scaled and written as 72
C11_Witness ==
    /\ u_arg.fn = "scale_font_size"
    /\ u_stage = "done"
    /\ u_arg.size = RInt(4000)
    /\ u_arg.scale = RInt(1000)
    /\ u_res.size = RInt(72)
    /\ u_res.written = RInt(72)

\* the hexadecimal digits, as a set of characters
HexChars ==
    {"0", "1", "2", "3", "4", "5", "6", "7", "8", "9",
     "a", "b", "c", "d", "e", "f", "A", "B", "C", "D", "E", "F"}

\* the colour string without its leading '#'
HexBody(s) == IF s # <<>> /\ s[1] = "#" THEN Tail(s) ELSE s

\* exactly 3 or exactly 6 hexadecimal digits
IsHex3or6(b) == Len(b) \in {3, 6} /\ \A i \in 1 .. Len(b) : b[i] \in HexChars

\* the 6-digit form: each digit of a 3-digit string doubled
SixDigits(b) == IF Len(b) = 3 THEN <<b[1], b[1], b[2], b[2], b[3], b[3]>> ELSE b

\* C12: for every string of 3 or 6 hexadecimal digits, with or without a
\* leading '#', rgb_to_hex of hex_to_rgb of it is '#' followed by the
\* upper-case 6-digit form of the string.
C12_HexRoundTrip ==
    (u_arg.fn = "hex_to_rgb" /\ IsHex3or6(HexBody(u_arg.str))) =>
        /\ u_stage \in {"parsed", "done"} => u_res.exc = ""
        /\ u_stage = "done" => u_res.hex = <<"#">> \o Upper(SixDigits(HexBody(u_arg.str)))

\* '#aF0' has come back as '#AAFF00'
C12_Witness ==
    /\ u_stage = "done"
    /\ u_arg.str = <<"#", "a", "F", "0">>
    /\ u_res.rgb = <<170, 255, 0>>
    /\ u_res.hex = <<"#", "A", "A", "F", "F", "0", "0">>

\* C13: for every colour string that, its '#' stripped, is not exactly 3 or
\* exactly 6 hexadecimal digits, hex_to_rgb returns (0, 0, 0) and does not
\* raise.
C13_MalformedIsBlack ==
    (u_arg.fn = "hex_to_rgb" /\ u_stage \in {"parsed", "done"}
       /\ ~IsHex3or6(HexBody(u_arg.str))) =>
        u_res.exc = "" /\ u_res.rgb = Black

---------------------------------------------------------------------------
(* Claims on the layout functions (checked under LayoutSpec).              *)

LP_Placed == lp_stage = "placed"

LP_TargetW == lp_positioning.ppt_width
LP_TargetH == lp_positioning.ppt_height
LP_Margin == lp_config.safeMargin
LP_Right == RAdd(lp_pos.x, lp_pos.width)
LP_Bottom == RAdd(lp_pos.y, lp_pos.height)

LP_ContentW == RMul(SourceW(lp_slide), lp_positioning.scale)
LP_ContentH == RMul(SourceH(lp_slide), lp_positioning.scale)

\* C7: for sourceW, sourceH, margin > 0 and a positive available area, the
\* scaled source box lies within [margin, target - margin] on both axes, one
\* axis is filled exactly, and on each axis offset - margin is half of the
\* leftover available length.
C7_FitsAndCentred ==
    (/\ lp_stage \in {"positioned", "placed"}
     /\ RGt(SourceW(lp_slide), RInt(0)) /\ RGt(SourceH(lp_slide), RInt(0))
     /\ RGt(LP_Margin, RInt(0))
     /\ RGt(lp_positioning.available_width, RInt(0))
     /\ RGt(lp_positioning.available_height, RInt(0)))
    =>
    /\ RLe(LP_Margin, lp_positioning.offset_x)
    /\ RLe(LP_Margin, lp_positioning.offset_y)
    /\ RLe(RAdd(lp_positioning.offset_x, LP_ContentW), RSub(lp_config.slideWidth, LP_Margin))
    /\ RLe(RAdd(lp_positioning.offset_y, LP_ContentH), RSub(lp_config.slideHeight, LP_Margin))
    /\ \/ LP_ContentW = lp_positioning.available_width
       \/ LP_ContentH = lp_positioning.available_height
    /\ RMul(RInt(2), RSub(lp_positioning.offset_x, LP_Margin))
         = RSub(lp_positioning.available_width, LP_ContentW)
    /\ RMul(RInt(2), RSub(lp_positioning.offset_y, LP_Margin))
         = RSub(lp_positioning.available_height, LP_ContentH)

\* C7 witness: a source relatively wider than the available area has been
\* fitted to the width and letterboxed (a positive leftover height).
C7_Witness ==
    /\ lp_stage = "positioned"
    /\ LP_ContentW = lp_positioning.available_width
    /\ RLt(LP_ContentH, lp_positioning.available_height)
    /\ RGt(lp_positioning.offset_y, LP_Margin)

\* the probe's layer lies inside the source canvas (relative scheme: inside
\* the unit square; absolute scheme: inside sourceW x sourceH)
LP_InsideSource ==
    LET rel == Get(lp_layer, "relativePosition", EmptyDict)
        pos == Get(lp_layer, "position", EmptyDict)
    IN  IF Truthy(rel)
        THEN /\ rel.keys = BoxKeys
             /\ RGe(rel.x, RInt(0)) /\ RGe(rel.y, RInt(0))
             /\ RLe(RAdd(rel.x, rel.width), RInt(1))
             /\ RLe(RAdd(rel.y, rel.height), RInt(1))
        ELSE /\ pos.keys = BoxKeys
             /\ RGe(pos.x, RInt(0)) /\ RGe(pos.y, RInt(0))
             /\ RLe(RAdd(pos.x, pos.width), SourceW(lp_slide))
             /\ RLe(RAdd(pos.y, pos.height), SourceH(lp_slide))

\* C8: a layer inside the source canvas whose computed size is at least 0.1
\* in both dimensions is placed inside the safe area:
\* margin <= x, x + width <= targetW - margin, margin <= y,
\* y + height <= targetH - margin.
C8_InsideSafeArea ==
    (/\ LP_Placed
     /\ LP_InsideSource
     /\ LET raw == raw_layer_position(lp_layer, lp_positioning)
        IN  RGe(raw.width, R(1, 10)) /\ RGe(raw.height, R(1, 10)))
    =>
    /\ RLe(LP_Margin, lp_pos.x)
    /\ RLe(LP_Margin, lp_pos.y)
    /\ RLe(LP_Right, RSub(LP_TargetW, LP_Margin))
    /\ RLe(LP_Bottom, RSub(LP_TargetH, LP_Margin))

\* the probe's layer is relativePosition = {x:0, y:0, width:1, height:1}
\* with no position
LP_FullRelative ==
    /\ Get(lp_layer, "relativePosition", EmptyDict) = Box(RInt(0), RInt(0), RInt(1), RInt(1))
    /\ ~Truthy(Get(lp_layer, "position", EmptyDict))

\* C9 (as stated): a layer with relativePosition {0, 0, 1, 1} and no position
\* is placed at x = offsetX, y = offsetY, width = availableW,
\* height = availableH, for every source width and height.
C9_Original ==
    (LP_Placed /\ LP_FullRelative) =>
        /\ lp_pos.x = lp_positioning.offset_x
        /\ lp_pos.y = lp_positioning.offset_y
        /\ lp_pos.width = lp_positioning.available_width
        /\ lp_pos.height = lp_positioning.available_height

\* C9 (amended): such a layer gets width = availableW, height = availableH,
\* x = min(offsetX, targetW - availableW) and y = min(offsetY, targetH -
\* availableH); x = offsetX and y = offsetY exactly when the offsets do not
\* exceed twice the margin.
C9_FullRelativePlacement ==
    (/\ LP_Placed /\ LP_FullRelative
     /\ RGe(LP_Margin, RInt(0))
     /\ RGe(lp_positioning.available_width, R(1, 10))
     /\ RGe(lp_positioning.available_height, R(1, 10)))
    =>
    /\ lp_pos.width = lp_positioning.available_width
    /\ lp_pos.height = lp_positioning.available_height
    /\ lp_pos.x = RMin(lp_positioning.offset_x,
                       RSub(LP_TargetW, lp_positioning.available_width))
    /\ lp_pos.y = RMin(lp_positioning.offset_y,
                       RSub(LP_TargetH, lp_positioning.available_height))
    /\ (lp_pos.x = lp_positioning.offset_x
          <=> RLe(lp_positioning.offset_x, RMul(RInt(2), LP_Margin)))
    /\ (lp_pos.y = lp_positioning.offset_y
          <=> RLe(lp_positioning.offset_y, RMul(RInt(2), LP_Margin)))

\* C9 witness: a full-area relative layer of a pillarboxed slide has been
\* placed left of offsetX.
C9_Witness ==
    /\ LP_Placed /\ LP_FullRelative
    /\ RLt(lp_pos.x, lp_positioning.offset_x)
    /\ lp_pos.width = lp_positioning.available_width

---------------------------------------------------------------------------
(* Claims on the conversion (checked under Spec).                          *)

\* the layers of input slide s as sent, and the one with a given id (the ids
\* are the positions in the input array)
InputLayers(s) == Get(figma_data.slides[s], "layers", <<>>)
InputLayer(s, id) == InputLayers(s)[id]

\* the shapes of output slide s made for layers (not for the background)
LayerShapes(s) == SelectSeq(prs[s].shapes, LAMBDA sh : sh.origin # 0)

\* the input layer fails the validation of process_layers / process_layer
Rejected(layer) ==
    \/ Get(layer, "type", "") \notin LayerTypes
    \/ Get(layer, "type", "") = "TEXT" /\ Strip(Get(layer, "content", <<>>)) = <<>>
    \/ Get(layer, "type", "") = "IMAGE" /\ Get(layer, "imageData", "") = ""

\* the conversion has answered with the file
Sent == pc = "done" /\ response.status = 200

\* C2: in every output slide the layers' shapes are in non-decreasing zIndex
\* order (a missing zIndex is 0), and shapes of layers with equal zIndex are
\* in the order of the input array.
C2_ZOrder ==
    \A s \in 1 .. Len(prs) :
        LET shapes == LayerShapes(s)
        IN  \A i, j \in 1 .. Len(shapes) :
                i < j =>
                    LET a == InputLayer(s, shapes[i].origin)
                        b == InputLayer(s, shapes[j].origin)
                    IN  /\ ZKey(a) <= ZKey(b)
                        /\ ZKey(a) = ZKey(b) => shapes[i].origin < shapes[j].origin

\* C2 witness: a file was sent in which a layer sent later in the input array
\* but with a lower zIndex precedes an earlier one.
C2_Witness ==
    /\ Sent
    /\ \E s \in 1 .. Len(response.file) :
          LET shapes == LayerShapes(s)
          IN  \E i, j \in 1 .. Len(shapes) :
                  /\ i < j
                  /\ shapes[i].origin > shapes[j].origin
                  /\ ZKey(InputLayer(s, shapes[i].origin)) < ZKey(InputLayer(s, shapes[j].origin))

\* C3: no shape of an output slide originates from a layer whose type is not
\* TEXT, SHAPE or IMAGE (or is missing), from a TEXT layer with empty or
\* whitespace-only content or from an IMAGE layer without imageData, and in
\* a file sent every layer of a valid type has been processed.
C3_RejectedNeverEmitted ==
    /\ \A s \in 1 .. Len(prs) :
          \A i \in 1 .. Len(LayerShapes(s)) :
              ~Rejected(InputLayer(s, LayerShapes(s)[i].origin))
    /\ Sent =>
          \A s \in 1 .. Len(response.file) :
              \A id \in 1 .. Len(InputLayers(s)) :
                  Get(InputLayer(s, id), "type", "") \in LayerTypes
                      => \E k \in 1 .. Len(log) : log[k][1] = s /\ log[k][2] = id

\* C3 witness: a file was sent whose slide had a rejected layer ahead of a
\* layer that was emitted.
C3_Witness ==
    /\ Sent
    /\ \E s \in 1 .. Len(response.file) :
          \E id \in 1 .. Len(InputLayers(s)) :
              /\ Rejected(InputLayer(s, id))
              /\ \E i \in 1 .. Len(LayerShapes(s)) : LayerShapes(s)[i].origin > id

\* the properties a finished shape of each kind has been given
FullAttrs(kind) ==
    CASE kind = "textbox" -> TextAttrs
      [] kind = "shape" -> ShapeAttrs
      [] OTHER -> {"image"}

\* C4: emission is all-or-nothing: a layer whose processing raised has no
\* shape on its output slide, and every shape made for a layer is fully
\* styled; no layer has more than one shape.
C4_AllOrNothing ==
    /\ \A k \in 1 .. Len(log) :
          log[k][3] = "error" =>
              \A i \in 1 .. Len(LayerShapes(log[k][1])) :
                  LayerShapes(log[k][1])[i].origin # log[k][2]
    /\ \A s \in 1 .. Len(prs) :
          /\ \A i \in 1 .. Len(LayerShapes(s)) :
                LayerShapes(s)[i].attrs = FullAttrs(LayerShapes(s)[i].kind)
          /\ \A i, j \in 1 .. Len(LayerShapes(s)) :
                LayerShapes(s)[i].origin = LayerShapes(s)[j].origin => i = j

\* the input layer passes validation and its own processing, on its slide,
\* yields a shape without raising
Emittable(s, id) ==
    LET slide_data == processed_slide(figma_data.slides[s])
        layer == processed_layer(InputLayer(s, id))
        pos == calculate_positioning(slide_data, DefaultConfig)
        out == process_layer(layer, pos, DefaultConfig)
    IN  /\ ~Rejected(InputLayer(s, id))
        /\ pos.exc = ""
        /\ out.exc = "" /\ Len(out.shapes) = 1

\* the file sent holds a shape for layer id of slide s
InFile(s, id) ==
    /\ s <= Len(response.file)
    /\ \E i \in 1 .. Len(response.file[s].shapes) : response.file[s].shapes[i].origin = id

\* C5: when processing a layer has raised, the conversion still returns a
\* file, and every other emittable layer of the same slide and of the later
\* slides is in it.
C5_LayerFailureIsolated ==
    pc = "done" =>
        \A k \in 1 .. Len(log) :
            log[k][3] = "error" =>
                /\ response.status = 200
                /\ \A s \in log[k][1] .. Len(figma_data.slides) :
                      \A id \in 1 .. Len(InputLayers(s)) :
                          Emittable(s, id) => InFile(s, id)

\* the slide's positioning and background can be computed
SlideSound(s) ==
    LET slide_data == processed_slide(figma_data.slides[s])
    IN  /\ calculate_positioning(slide_data, DefaultConfig).exc = ""
        /\ set_slide_background(slide_data.background, DefaultConfig).exc = ""

\* C6: a slide whose background or positioning cannot be computed does not
\* abort the conversion: every sound slide of the document is in the file
\* returned, with every emittable layer of it.
C6_SlideFailureIsolated ==
    (pc = "done" /\ response.status # 400) =>
        \A s \in 1 .. Len(figma_data.slides) :
            SlideSound(s) =>
                /\ response.status = 200
                /\ s <= Len(response.file)
                /\ \A id \in 1 .. Len(InputLayers(s)) : Emittable(s, id) => InFile(s, id)

\* style.fill of the input layer (null when absent)
InputFill(layer) == Get(Get(layer, "style", EmptyStyle), "fill", JNull)

\* C10: a SHAPE layer is emitted with no fill whenever its style.fill is
\* absent, empty or "transparent" / "none" in any letter case, and with a
\* solid fill only otherwise.
C10_TransparentFill ==
    \A s \in 1 .. Len(prs) :
        \A i \in 1 .. Len(LayerShapes(s)) :
            LET sh == LayerShapes(s)[i]
            IN  (sh.kind = "shape" /\ "fill" \in sh.attrs) =>
                    IF is_transparent_color(InputFill(InputLayer(s, sh.origin)))
                    THEN sh.fill = "background"
                    ELSE sh.fill = "solid"

\* C14: the positioning of every slide is computed from strictly positive
\* source dimensions (1920 x 1080 standing in for a missing, zero or negative
\* width or height): calculate_positioning never divides by zero and never
\* yields a non-positive scale.
C14_PositiveDimensions ==
    /\ pc = "layers" =>
           /\ RGt(slide_positioning.figma_width, RInt(0))
           /\ RGt(slide_positioning.figma_height, RInt(0))
           /\ RGt(slide_positioning.scale, RInt(0))
    /\ (pc = "done" /\ response.status = 500 /\ prs # <<>>) =>
           calculate_positioning(processed_data.slides[Len(prs)],
                                 processed_data.config).exc # "ZeroDivisionError"

\* the request has no body, an empty body, or no slides
WithoutSlides ==
    \/ figma_data.body \in {"absent", "empty", "null"}
    \/ figma_data.body = "object" /\ Get(figma_data, "slides", <<>>) = <<>>

\* C15: a request whose body is absent or empty, or whose slides list is
\* missing or empty, is answered with status 400 and never processed; a
\* request that reaches processing is answered with the complete file or,
\* when processing raises, with status 500 and no file.
C15_RequestValidation ==
    /\ WithoutSlides =>
           /\ pc \in {"request", "done"}
           /\ prs = <<>>
           /\ pc = "done" => response = [status |-> 400, file |-> <<>>]
    /\ (pc = "done" /\ figma_data.body = "object" /\ ~WithoutSlides) =>
           \/ /\ response.status = 200
              /\ response.file = prs
              /\ Len(prs) = Len(figma_data.slides)
           \/ response = [status |-> 500, file |-> <<>>]

\* the layer has neither relativePosition nor position, or has them empty
Unplaced(layer) ==
    /\ ~Truthy(Get(layer, "relativePosition", EmptyDict))
    /\ ~Truthy(Get(layer, "position", EmptyDict))

\* the layer the conversion has processed last, and the shapes of its slide
LastLayer == sorted_layers[layer_index]
LastShapes == prs[Len(prs)].shapes

\* the same layer with a position: what is left to go wrong with the layer
\* when the missing position is put aside
Placed(layer) ==
    [layer EXCEPT !.keys = @ \cup {"relativePosition"}, !.relativePosition = Quarter]

\* C16: a layer of a valid type without relativePosition and position is
\* not dropped and does not fail: it is emitted at x = offset_x,
\* y = offset_y with width 1.0 and height 0.5, the canvas clamp then applied.
C16_DefaultPlacement ==
    (pc = "layers" /\ layer_index > 0 /\ Unplaced(LastLayer) /\ ~Rejected(LastLayer)
       /\ process_layer(Placed(LastLayer), slide_positioning, processed_data.config).exc = "") =>
        /\ log[Len(log)] = <<slide_index, LastLayer.id, "done">>
        /\ LastShapes # <<>>
        /\ LET sh == LastShapes[Len(LastShapes)]
               cfg == processed_data.config
           IN  /\ sh.origin = LastLayer.id
               /\ sh.width = RInt(1)
               /\ sh.height = R(1, 2)
               /\ sh.x = RMax(RInt(0), RMin(slide_positioning.offset_x,
                                            RSub(cfg.slideWidth, RInt(1))))
               /\ sh.y = RMax(RInt(0), RMin(slide_positioning.offset_y,
                                            RSub(cfg.slideHeight, R(1, 2))))

\* a text without position data has been emitted on the 800 x 600 slide, at
\* that slide's offsets
C16_Witness ==
    /\ pc = "layers"
    /\ layer_index > 0
    /\ Unplaced(LastLayer)
    /\ LastLayer.type = "TEXT"
    /\ LastShapes # <<>>
    /\ LastShapes[Len(LastShapes)].origin = LastLayer.id
    /\ LastShapes[Len(LastShapes)].x = slide_positioning.offset_x
    /\ RGt(slide_positioning.offset_x, R(3, 10))
    /\ LastShapes[Len(LastShapes)].y = R(3, 10)

\* the shapes a list of layers yields, one layer after the other
RECURSIVE ShapesOf(_, _, _)
ShapesOf(layers, positioning, config) ==
    IF layers = <<>> THEN <<>>
    ELSE process_layer(Head(layers), positioning, config).shapes
         \o ShapesOf(Tail(layers), positioning, config)

\* the output slide of input slide i: its background, then its layers
Rendered(i) ==
    LET slide_data == processed_data.slides[i]
        config == processed_data.config
        bg == set_slide_background(slide_data.background, config)
    IN  [fill |-> bg.fill, rgb |-> bg.rgb,
         shapes |-> bg.shapes
                    \o ShapesOf(sort_layers(slide_data.layers),
                                calculate_positioning(slide_data, config), config)]

\* the background picture, if any, is the first shape and spans the canvas
BackgroundFirst(slide) ==
    \A k \in 1 .. Len(slide.shapes) :
        slide.shapes[k].origin = 0 =>
            /\ k = 1
            /\ slide.shapes[k].x = RInt(0) /\ slide.shapes[k].y = RInt(0)
            /\ slide.shapes[k].width = processed_data.config.slideWidth
            /\ slide.shapes[k].height = processed_data.config.slideHeight

\* the output so far: one slide per input slide begun, the finished ones
\* being those of the input slides in input order
SlidesInOrder ==
    /\ Len(prs) <= Len(processed_data.slides)
    /\ pc \in {"slides", "layers"} => Len(prs) = slide_index
    /\ \A i \in 1 .. Len(prs) :
           /\ BackgroundFirst(prs[i])
           /\ (i < Len(prs) \/ pc = "slides" \/ Sent) => prs[i] = Rendered(i)
    /\ Sent => response.file = prs /\ Len(prs) = Len(figma_data.slides)

\* a step adds one slide at the end, holding its background only, or adds
\* layer shapes behind the shapes of the last slide; nothing else changes
SlideStep ==
    /\ Len(prs') >= Len(prs)
    /\ \A i \in 1 .. Len(prs) : i < Len(prs') => prs'[i] = prs[i]
    /\ Len(prs') > Len(prs) =>
           /\ Len(prs') = Len(prs) + 1
           /\ prs'[Len(prs')] = [prs'[Len(prs')] EXCEPT !.shapes = SelectSeq(@, LAMBDA sh : sh.origin = 0)]
    /\ (Len(prs') = Len(prs) /\ prs # <<>>) =>
           LET old == prs[Len(prs)]
               new == prs'[Len(prs)]
           IN  /\ new.fill = old.fill /\ new.rgb = old.rgb
               /\ Len(new.shapes) >= Len(old.shapes)
               /\ SubSeq(new.shapes, 1, Len(old.shapes)) = old.shapes
               /\ \A k \in (Len(old.shapes) + 1) .. Len(new.shapes) : new.shapes[k].origin # 0

\* C17: the output is built slide by slide: one output slide per input
\* slide, in input order, everything of slide i added before anything of
\* slide i+1, and the background of a slide (the solid fill, or the picture
\* at (0,0) of the size of the canvas) applied before any of its layers.
C17_SlideBySlide == []SlidesInOrder /\ [][SlideStep]_vars

\* a file of two slides has been sent: the first with its background
\* picture below its two layers, the second with a solid background and
\* the shapes of its layers
C17_Witness ==
    /\ Sent
    /\ Len(response.file) = 2
    /\ Len(response.file[1].shapes) = 3
    /\ response.file[1].shapes[1].origin = 0
    /\ response.file[1].shapes[1].kind = "picture"
    /\ response.file[1].shapes[2].origin = 1
    /\ response.file[2].fill = "solid"
    /\ Len(response.file[2].shapes) >= 2

\* style.fontWeight of the layer, 'Regular' when the style has none
InputWeight(layer) == Get(Get(layer, "style", EmptyStyle), "fontWeight", JStr(S_Regular))

\* C18: on every emitted TEXT layer the bold flag is is_bold_weight of the
\* layer's fontWeight (it contains bold, semibold, extrabold, 600, 700, 800
\* or 900, in any case) and the italic flag is is_italic_style of it (it
\* contains italic or oblique, in any case).
C18_WeightFlags ==
    \A s \in 1 .. Len(prs) : \A k \in 1 .. Len(prs[s].shapes) :
        LET sh == prs[s].shapes[k]
        IN  (sh.kind = "textbox" /\ {"bold", "italic"} \subseteq sh.attrs
               /\ InputWeight(InputLayer(s, sh.origin)).t = "str") =>
                /\ sh.bold = is_bold_weight(InputWeight(InputLayer(s, sh.origin)).s)
                /\ sh.italic = is_italic_style(InputWeight(InputLayer(s, sh.origin)).s)

\* the placement of input layer id of input slide s, computed from the layer
\* and the slide alone
OwnPlacement(s, id) ==
    calculate_layer_position(processed_layer(InputLayer(s, id)),
                             calculate_positioning(processed_slide(figma_data.slides[s]),
                                                   DefaultConfig),
                             DefaultConfig)

\* every layer shape of the presentation lies where its layer and its slide
\* put it, whatever was processed before it
PlacementsOwn ==
    /\ processed_data.config = DefaultConfig
    /\ pc = "layers" =>
           slide_positioning = calculate_positioning(processed_data.slides[slide_index],
                                                     DefaultConfig)
    /\ \A s \in 1 .. Len(prs) : \A k \in 1 .. Len(prs[s].shapes) :
           LET sh == prs[s].shapes[k]
               own == OwnPlacement(s, sh.origin)
           IN  sh.origin # 0 =>
                   /\ own.exc = ""
                   /\ <<sh.x, sh.y, sh.width, sh.height>> =
                          <<own.x, own.y, own.width, own.height>>

\* processing a layer, whether it is emitted, skipped or fails, and starting
\* a slide with its background leave the config alone; processing a layer
\* leaves the positioning context alone
ContextKept ==
    /\ processed_data.slides # <<>> => processed_data' = processed_data
    /\ (pc = "layers" /\ pc' = "layers") => slide_positioning' = slide_positioning

===========================================================================
